---------------------------- MODULE Spec2Model ----------------------------
(***************************************************************************)
(* Model of the aws-sdk-compile-checks macro: the MethodVisitor of         *)
(* aws-sdk-compile-checks-macro/src/visitor.rs, which segments the         *)
(* recorded method calls of a function into SDK calls with their argument  *)
(* setters, resolves the SDK whose required properties apply, and reports  *)
(* the missing ones.                                                       *)
(*                                                                         *)
(* Strings are sequences of one-character strings, so that the string      *)
(* conversions of the code (replace, sort, join) are computed, not         *)
(* assumed.  Option<T> is a sequence of length at most one.  A HashMap or  *)
(* HashSet is the sequence of its entries in the iteration order of the    *)
(* run, which the hasher's random state fixes per run: every order is a    *)
(* possible initial state.                                                 *)
(***************************************************************************)
EXTENDS Integers, Sequences, FiniteSets, TLC

VARIABLES
    clients,        \* MethodVisitor.clients: HashSet<Client>
    method_calls,   \* MethodVisitor.method_calls: Vec<MethodCallWithReceiver>
    required_props, \* MethodVisitor.required_props: RequiredPropertiesMap
    selected_sdks,  \* the sdks of the attribute, argument of find_improper_usages
    initial,        \* find_improper_usages: the calls still to analyse (indices into method_calls)
    results,        \* find_improper_usages: the findings so far
    pc,             \* "loop" in the while loop, "done" after a return, "panicked"; "call", "returned"
    last,           \* the local variables of the latest loop iteration
    call,           \* get_required_props_for called on its own: its function_call argument
    resolved,       \* get_required_props_for called on its own: its return value
    error,          \* required_props: the configuration error it returns (lib.rs 25-31)
    methods_with_required_props, \* create_required_props_for: the text of the table
    lines,          \* create_required_props_for: the non-empty lines still to map
    required_props_as_vec, \* create_required_props_for: the records collected so far
    required_props_map, \* create_required_props_for: acc, the accumulator of the fold
    item,           \* MethodVisitor::new: the function the attribute is on
    pending,        \* visit_item_fn: the nodes still to visit, the next one first
    errors          \* required_props: the compile errors of the findings (lib.rs 38)

vars == <<clients, method_calls, required_props, selected_sdks, initial,
          results, pc, last, call, resolved, error,
          methods_with_required_props, lines, required_props_as_vec,
          required_props_map, item, pending, errors>>

----------------------------------------------------------------------------
(* Names *)

s3 == <<"s", "3">>
sqs == <<"s", "q", "s">>
sns == <<"s", "n", "s">>
dynamodb == <<"d", "y", "n", "a", "m", "o", "d", "b">>
send_message == <<"s", "e", "n", "d", "_", "m", "e", "s", "s", "a", "g", "e">>
receive_message == <<"r", "e", "c", "e", "i", "v", "e", "_", "m", "e", "s", "s", "a", "g", "e">>
some_call == <<"s", "o", "m", "e", "_", "c", "a", "l", "l">>
required_call == <<"r", "e", "q", "u", "i", "r", "e", "d", "_", "c", "a", "l", "l">>
required_call_that_is_missing == <<"r", "e", "q", "u", "i", "r", "e", "d", "_", "c", "a", "l", "l", "_", "t", "h", "a", "t", "_", "i", "s", "_", "m", "i", "s", "s", "i", "n", "g">>
different_call == <<"d", "i", "f", "f", "e", "r", "e", "n", "t", "_", "c", "a", "l", "l">>
unknown == <<"u", "n", "k", "n", "o", "w", "n">>
sqs_client == <<"s", "q", "s", "_", "c", "l", "i", "e", "n", "t">>
client == <<"c", "l", "i", "e", "n", "t">>

AWS_SDK_SEND == <<"s", "e", "n", "d">>

None == <<>>
Some(x) == <<x>>

----------------------------------------------------------------------------
(* Strings: replace, comparison, sort, join *)

\* str::replace(pat, ""): every non-overlapping match, left to right
RECURSIVE Remove(_, _)
Remove(s, pat) ==
    IF Len(s) < Len(pat) THEN s
    ELSE IF SubSeq(s, 1, Len(pat)) = pat
         THEN Remove(SubSeq(s, Len(pat) + 1, Len(s)), pat)
         ELSE <<Head(s)>> \o Remove(Tail(s), pat)

try_to_get_sdk_from_name(name) == Remove(Remove(name, client), <<"_">>)

\* the byte order of the characters that occur in identifiers
Bytes == <<",", "0", "1", "2", "3", "4", "5", "6", "7", "8", "9", "_",
           "a", "b", "c", "d", "e", "f", "g", "h", "i", "j", "k", "l", "m",
           "n", "o", "p", "q", "r", "s", "t", "u", "v", "w", "x", "y", "z">>

Byte(c) == CHOOSE i \in 1..Len(Bytes) : Bytes[i] = c

\* Ord for str: lexicographic by byte, a proper prefix first
RECURSIVE StrLess(_, _)
StrLess(a, b) ==
    IF b = <<>> THEN FALSE
    ELSE IF a = <<>> THEN TRUE
    ELSE IF Head(a) = Head(b) THEN StrLess(Tail(a), Tail(b))
    ELSE Byte(Head(a)) < Byte(Head(b))

RECURSIVE Insert(_, _)
Insert(x, sorted) ==
    IF sorted = <<>> THEN <<x>>
    ELSE IF StrLess(Head(sorted), x) THEN <<Head(sorted)>> \o Insert(x, Tail(sorted))
    ELSE <<x>> \o sorted

RECURSIVE Sort(_)
Sort(v) == IF v = <<>> THEN <<>> ELSE Insert(Head(v), Sort(Tail(v)))

RECURSIVE Join(_, _)
Join(v, sep) ==
    IF v = <<>> THEN <<>>
    ELSE IF Len(v) = 1 THEN Head(v)
    ELSE Head(v) \o sep \o Join(Tail(v), sep)

----------------------------------------------------------------------------
(* Collections *)

Last(v) == v[Len(v)]

Range(v) == {v[i] : i \in 1..Len(v)}

\* the iteration orders a hash collection with the entries S can have
HashOrders(S) ==
    {v \in [1..Cardinality(S) -> S] : \A i, j \in 1..Cardinality(S) : i # j => v[i] # v[j]}

contains_key(map, k) == \E i \in 1..Len(map) : map[i].key = k
get(map, k) == map[CHOOSE i \in 1..Len(map) : map[i].key = k].value
keys(map) == [i \in 1..Len(map) |-> map[i].key]
values(map) == [i \in 1..Len(map) |-> map[i].value]

\* variant: the calls in the order they were recorded
Unreversed(v) == v

\* Iterator::rev
Rev(v) == [i \in 1..Len(v) |-> v[Len(v) + 1 - i]]

----------------------------------------------------------------------------
(* Resolution of the SDK: get_required_props_for and its helpers.  self is *)
(* the MethodVisitor [clients, method_calls, required_props].  A value the *)
(* code binds with let and reads more than once is passed as an argument.  *)

Ok(sdk, props) == [ok |-> TRUE, sdk |-> sdk, props |-> props]
Err(sdks) == [ok |-> FALSE, sdks |-> sdks]

\* a failed expect: the macro panics, nothing is returned
Panicked == [ok |-> FALSE, panicked |-> TRUE]

Client(name, sdk) == [name |-> name, sdk |-> sdk]

first_or(v, default) == IF v # <<>> THEN Head(v) ELSE default

\* one step of the fold of results_that_are_all_the_same
same_step(acc, curr) ==
    IF acc[2] = <<>> \/ ~acc[1] THEN <<acc[1], curr>>
    ELSE IF acc[2] = curr THEN <<TRUE, curr>>
    ELSE <<FALSE, curr>>

RECURSIVE fold_same(_, _)
fold_same(vals, acc) ==
    IF vals = <<>> THEN acc ELSE fold_same(Tail(vals), same_step(acc, Head(vals)))

results_that_are_all_the_same(hashmaps_with_required_props) ==
    fold_same(values(hashmaps_with_required_props), <<TRUE, <<>>>>)

required_props_for_client(hashmaps_with_required_props, c) ==
    IF c.sdk # None /\ contains_key(hashmaps_with_required_props, c.sdk[1])
    THEN Some(get(hashmaps_with_required_props, c.sdk[1]))
    ELSE IF c.name # None
            /\ contains_key(hashmaps_with_required_props, try_to_get_sdk_from_name(c.name[1]))
    THEN Some(get(hashmaps_with_required_props, try_to_get_sdk_from_name(c.name[1])))
    ELSE None

try_to_get_sdk_from_client(c) ==
    IF c.sdk # None THEN c.sdk[1]
    ELSE IF c.name # None THEN try_to_get_sdk_from_name(c.name[1])
    ELSE unknown

\* the method belongs to one SDK only
only_one_sdk(hashmaps_with_required_props) ==
    IF Len(keys(hashmaps_with_required_props)) = 1
    THEN Some(Ok(keys(hashmaps_with_required_props)[1],
                 values(hashmaps_with_required_props)[1]))
    ELSE None

\* variant: the SDKs are joined as the map iterates them
the_same_unsorted(sdks, same) ==
    IF same[1] THEN Some(Ok(Join(sdks, <<",">>), same[2])) ELSE None

the_same_for(sdks, same) ==
    IF same[1] THEN Some(Ok(Join(Sort(sdks), <<",">>), same[2])) ELSE None

\* all SDKs require the same: the sorted SDKs, joined
all_the_same(hashmaps_with_required_props) ==
    the_same_for(keys(hashmaps_with_required_props),
                 results_that_are_all_the_same(hashmaps_with_required_props))

\* the selected SDKs that have the method, with what they require
RECURSIVE selected_results(_, _)
selected_results(hashmaps_with_required_props, selected) ==
    IF selected = <<>> THEN <<>>
    ELSE (IF contains_key(hashmaps_with_required_props, Head(selected))
          THEN << <<Head(selected), get(hashmaps_with_required_props, Head(selected))>> >>
          ELSE <<>>)
         \o selected_results(hashmaps_with_required_props, Tail(selected))

\* variant: the receiver is compared as it is written
receiver_tie_breaker_by_name(found, function_call) ==
    IF Len(found) > 1 /\ function_call.receiver # None
    THEN SelectSeq(found, LAMBDA r : r[1] = function_call.receiver[1])
    ELSE <<>>

\* the receiver as a tie-breaker between several selected SDKs
receiver_tie_breaker(found, function_call) ==
    IF Len(found) > 1 /\ function_call.receiver # None
    THEN SelectSeq(found, LAMBDA r : r[1] = try_to_get_sdk_from_name(function_call.receiver[1]))
    ELSE <<>>

selected_or_tie(selected, found, tie, function_call) ==
    IF tie # <<>>
    THEN Some(Ok(try_to_get_sdk_from_name(function_call.receiver[1]), Last(tie)[2]))
    ELSE IF found # <<>> THEN Some(Ok(Head(selected), Last(found)[2]))
    ELSE None

\* the SDKs the user selected
from_selected_sdks(hashmaps_with_required_props, function_call, selected) ==
    IF selected = <<>> THEN None
    ELSE selected_or_tie(selected,
             selected_results(hashmaps_with_required_props, selected),
             receiver_tie_breaker(selected_results(hashmaps_with_required_props, selected),
                                  function_call),
             function_call)

receiver_result(function_call, found) ==
    IF found # None
    THEN Some(Ok(try_to_get_sdk_from_name(function_call.receiver[1]), found[1]))
    ELSE None

\* the name of the receiver
from_receiver(hashmaps_with_required_props, function_call) ==
    IF function_call.receiver = None THEN None
    ELSE receiver_result(function_call,
             required_props_for_client(hashmaps_with_required_props,
                                       Client(Some(function_call.receiver[1]), None)))

client_result(c, found) == IF found # None THEN << <<c, found[1]>> >> ELSE <<>>

\* the clients that lead to an SDK of the method, in iteration order
RECURSIVE client_results(_, _)
client_results(hashmaps_with_required_props, cs) ==
    IF cs = <<>> THEN <<>>
    ELSE client_result(Head(cs), required_props_for_client(hashmaps_with_required_props, Head(cs)))
         \o client_results(hashmaps_with_required_props, Tail(cs))

\* variant: the last client, whatever the receiver
last_client(found, function_call) == Last(found)

client_that_matches_receiver_or_default(found, function_call) ==
    first_or(SelectSeq(found, LAMBDA r : /\ r[1].name # None
                                         /\ r[1].name[1] = function_call.receiver[1]),
             Last(found))

client_ok(r) == Ok(try_to_get_sdk_from_client(r[1]), r[2])

\* the clients of the function, or the error with the SDKs of the method
from_clients(hashmaps_with_required_props, function_call, found) ==
    IF found # <<>>
    THEN IF Len(found) > 1 /\ function_call.receiver # None
         THEN client_ok(client_that_matches_receiver_or_default(found, function_call))
         ELSE client_ok(Last(found))
    ELSE Err(keys(hashmaps_with_required_props))

\* the first rule that gives a result
first_result(rules, otherwise) ==
    first_or(SelectSeq(rules, LAMBDA r : r # None), <<otherwise>>)[1]

\* variant: the selected SDKs are asked before the SDKs of the method are counted
resolve_selected_first(self, hashmaps_with_required_props, function_call, selected) ==
    first_result(<<from_selected_sdks(hashmaps_with_required_props, function_call, selected),
                   only_one_sdk(hashmaps_with_required_props),
                   all_the_same(hashmaps_with_required_props),
                   from_receiver(hashmaps_with_required_props, function_call)>>,
                 from_clients(hashmaps_with_required_props, function_call,
                              client_results(hashmaps_with_required_props, self.clients)))

\* variant: the receiver is asked before the selected SDKs
resolve_receiver_first(self, hashmaps_with_required_props, function_call, selected) ==
    first_result(<<only_one_sdk(hashmaps_with_required_props),
                   all_the_same(hashmaps_with_required_props),
                   from_receiver(hashmaps_with_required_props, function_call),
                   from_selected_sdks(hashmaps_with_required_props, function_call, selected)>>,
                 from_clients(hashmaps_with_required_props, function_call,
                              client_results(hashmaps_with_required_props, self.clients)))

resolve(self, hashmaps_with_required_props, function_call, selected) ==
    first_result(<<only_one_sdk(hashmaps_with_required_props),
                   all_the_same(hashmaps_with_required_props),
                   from_selected_sdks(hashmaps_with_required_props, function_call, selected),
                   from_receiver(hashmaps_with_required_props, function_call)>>,
                 from_clients(hashmaps_with_required_props, function_call,
                              client_results(hashmaps_with_required_props, self.clients)))

get_required_props_for(self, function_call, selected) ==
    IF function_call.method_call \notin DOMAIN self.required_props THEN Panicked
    ELSE resolve(self, self.required_props[function_call.method_call], function_call, selected)

----------------------------------------------------------------------------
(* find_improper_usages.  The remaining calls are references into          *)
(* method_calls, modelled as indices; the span of a finding is the index   *)
(* of the call it is reported at.                                          *)

method_of(self, i) == self.method_calls[i].method_call

\* variant: nothing is skipped
skip_nothing(self, v) == v

\* skip the calls that are no SDK function we check
RECURSIVE skip_until_relevant(_, _)
skip_until_relevant(self, v) ==
    IF v = <<>> THEN <<>>
    ELSE IF method_of(self, Head(v)) \notin DOMAIN self.required_props
         THEN skip_until_relevant(self, Tail(v))
         ELSE v

\* the names of the calls up to a send or another SDK function
RECURSIVE take_arguments(_, _, _)
take_arguments(self, v, sdk_function) ==
    IF v = <<>> THEN <<>>
    ELSE IF /\ method_of(self, Head(v)) # AWS_SDK_SEND
            /\ \/ method_of(self, Head(v)) = sdk_function
               \/ method_of(self, Head(v)) \notin DOMAIN self.required_props
         THEN <<method_of(self, Head(v))>> \o take_arguments(self, Tail(v), sdk_function)
         ELSE <<>>

arguments_for_function(self, skip) ==
    take_arguments(self, skip, method_of(self, Head(skip)))

\* variant: is_empty without the negation
receiver_without_clients(self, sdk_function_call) ==
    /\ sdk_function_call.receiver # None
    /\ self.clients = <<>>

\* there are clients and none has the name of the receiver
receiver_is_no_client(self, sdk_function_call) ==
    /\ sdk_function_call.receiver # None
    /\ self.clients # <<>>
    /\ \A i \in 1..Len(self.clients) :
          \/ self.clients[i].name = None
          \/ self.clients[i].name[1] # sdk_function_call.receiver[1]

\* variant: the filter keeps the required arguments that were set
required_args_seen(required, arguments) ==
    SelectSeq(required, LAMBDA c : c \in Range(arguments))

missing_required_args(required, arguments) ==
    SelectSeq(required, LAMBDA c : c \notin Range(arguments))

drain(v, n) == SubSeq(v, n + 1, Len(v))

Unknown(span, method, sdks) ==
    [kind |-> "Unknown", span |-> span, method |-> method, sdks |-> sdks]

Improper(span, method, missing, sdk) ==
    [kind |-> "Improper", span |-> span, method |-> method, missing |-> missing, sdk |-> sdk]

\* the local variables of an iteration: the branch it took, the calls from
\* the SDK function on, the span of that function, its arguments, what
\* get_required_props_for returned, and what is missing
Locals(branch, skip, arguments, required, missing) ==
    [branch |-> branch, skip |-> skip, span |-> first_or(skip, 0),
     arguments |-> arguments, required |-> required, missing |-> missing]

NoLocals == Locals("none", <<>>, <<>>, None, <<>>)

Iteration(returned, init, res, locals) ==
    [returned |-> returned, initial |-> init, results |-> res, locals |-> locals]

\* visitor.rs 104-122: compare, push what is missing, drain the arguments
compare(res, skip, sdk_function_call, arguments, required, missing) ==
    IF missing # <<>>
    THEN Iteration(FALSE, drain(skip, Len(arguments)),
                   Append(res, Improper(Head(skip), sdk_function_call.method_call,
                                        missing, required.sdk)),
                   Locals("improper", skip, arguments, Some(required), missing))
    ELSE Iteration(FALSE, drain(skip, Len(arguments)), res,
                   Locals("complete", skip, arguments, Some(required), missing))

\* variant: the unknown usage is pushed and the loop goes on
check_and_continue(res, skip, sdk_function_call, arguments, required) ==
    IF required = Panicked
    THEN Iteration(TRUE, skip, res, Locals("panicked", skip, arguments, None, <<>>))
    ELSE IF ~required.ok
    THEN Iteration(FALSE, drain(skip, Len(arguments)),
                   Append(res, Unknown(Head(skip), sdk_function_call.method_call, required.sdks)),
                   Locals("unknown", skip, arguments, Some(required), <<>>))
    ELSE compare(res, skip, sdk_function_call, arguments, required,
                 missing_required_args(required.props, arguments))

\* variant: the unknown usage is put before the findings so far
check_unknown_first(res, skip, sdk_function_call, arguments, required) ==
    IF required = Panicked
    THEN Iteration(TRUE, skip, res, Locals("panicked", skip, arguments, None, <<>>))
    ELSE IF ~required.ok
    THEN Iteration(TRUE, skip,
                   <<Unknown(Head(skip), sdk_function_call.method_call, required.sdks)>> \o res,
                   Locals("unknown", skip, arguments, Some(required), <<>>))
    ELSE compare(res, skip, sdk_function_call, arguments, required,
                 missing_required_args(required.props, arguments))

\* visitor.rs 90-101: the required properties, or the unknown usage
check(res, skip, sdk_function_call, arguments, required) ==
    IF required = Panicked
    THEN Iteration(TRUE, skip, res, Locals("panicked", skip, arguments, None, <<>>))
    ELSE IF ~required.ok
    THEN Iteration(TRUE, skip,
                   Append(res, Unknown(Head(skip), sdk_function_call.method_call, required.sdks)),
                   Locals("unknown", skip, arguments, Some(required), <<>>))
    ELSE compare(res, skip, sdk_function_call, arguments, required,
                 missing_required_args(required.props, arguments))

\* visitor.rs 59-88: the SDK function, its arguments, the filter on the receiver
analyse(self, selected, res, skip, sdk_function_call, arguments) ==
    IF receiver_is_no_client(self, sdk_function_call)
    THEN Iteration(FALSE, drain(skip, Len(arguments)), res,
                   Locals("skipped", skip, arguments, None, <<>>))
    ELSE check(res, skip, sdk_function_call, arguments,
               get_required_props_for(self, sdk_function_call, selected))

\* visitor.rs 55-57: return when no SDK function is left
relevant(self, selected, res, skip) ==
    IF skip = <<>>
    THEN Iteration(TRUE, skip, res, Locals("empty", <<>>, <<>>, None, <<>>))
    ELSE analyse(self, selected, res, skip, self.method_calls[Head(skip)],
                 arguments_for_function(self, skip))

\* one iteration of the while loop, from the remaining calls and the
\* findings so far to the new ones
iteration(self, selected, init, res) ==
    relevant(self, selected, res, skip_until_relevant(self, init))

MaxFindings == 5

\* the whole call, cut off at MaxFindings findings and when nothing changes
RECURSIVE while_loop(_, _, _, _)
while_loop(self, selected, init, res) ==
    IF init = <<>> \/ Len(res) >= MaxFindings THEN res
    ELSE LET it == iteration(self, selected, init, res)
         IN  IF it.returned \/ (it.initial = init /\ it.results = res) THEN it.results
             ELSE while_loop(self, selected, it.initial, it.results)

find_improper_usages(self, selected) ==
    while_loop(self, selected, Rev([i \in 1..Len(self.method_calls) |-> i]), <<>>)

----------------------------------------------------------------------------
(* create_required_props_for: the table is a text of records               *)
(* service,method,arg1 arg2 .., one per line.  The map of a method is kept *)
(* as the set of its entries; its iteration order is chosen when the       *)
(* analysis reads it.                                                      *)

NEWLINE == "\n"
COMMA == ","
SPACE == " "

\* the index of the first pat in str, 0 if there is none
find(str, pat) ==
    IF \E i \in 1..Len(str) : str[i] = pat
    THEN CHOOSE i \in 1..Len(str) : str[i] = pat /\ \A j \in 1..(i - 1) : str[j] # pat
    ELSE 0

\* str::split
RECURSIVE split(_, _)
split_at(str, pat, i) ==
    IF i = 0 THEN <<str>>
    ELSE <<SubSeq(str, 1, i - 1)>> \o split(SubSeq(str, i + 1, Len(str)), pat)

split(str, pat) == split_at(str, pat, find(str, pat))

is_empty(str) == str = <<>>

\* variant: every space separates two words
split_spaces(str) == split(str, SPACE)

\* str::split_whitespace
split_whitespace(str) == SelectSeq(split(str, SPACE), LAMBDA word : ~is_empty(word))

\* required_properties.rs 14-16: the lines of the text that are not empty
non_empty_lines(text) == SelectSeq(split(text, NEWLINE), LAMBDA m : ~is_empty(m))

Record(service_name, method_name, required) ==
    [service_name |-> service_name, method_name |-> method_name, required_props |-> required]

\* required_properties.rs 18-26: the three pops off the end of the fields;
\* the first never fails, split yields a field for every line
last_three_fields(method_and_props) ==
    IF Len(method_and_props) < 3 THEN Panicked
    ELSE Record(method_and_props[Len(method_and_props) - 2],
                method_and_props[Len(method_and_props) - 1],
                split_whitespace(method_and_props[Len(method_and_props)]))

\* required_properties.rs 17-27: the closure of map
record_of(m) == last_three_fields(split(m, COMMA))

\* the entry of a service in the map of a method, or the default
entry_or_default(map, method_name, service_name) ==
    IF method_name \in DOMAIN map /\ \E e \in map[method_name] : e.key = service_name
    THEN (CHOOSE e \in map[method_name] : e.key = service_name).value
    ELSE <<>>

map_or_default(map, method_name) ==
    IF method_name \in DOMAIN map THEN map[method_name] ELSE {}

\* required_properties.rs 31-35: the closure of fold
fold_record(map, record) ==
    [method \in DOMAIN map \cup {record.method_name} |->
        IF method = record.method_name
        THEN {e \in map_or_default(map, method) : e.key # record.service_name}
             \cup {[key |-> record.service_name,
                    value |-> entry_or_default(map, method, record.service_name)
                              \o record.required_props]}
        ELSE map[method]]

\* the state of a macro that is not loading its table
NotLoading ==
    /\ methods_with_required_props = <<>>
    /\ lines = <<>>
    /\ required_props_as_vec = <<>>
    /\ required_props_map = <<>>

----------------------------------------------------------------------------
(* MethodVisitor::new: analyze_signature reads the parameters, and the     *)
(* visit of the item records the method calls and the clients that local   *)
(* declarations create.  A syntax node is its kind, its identifier if it   *)
(* has one, the segments of its path, and the nodes syn visits below it in *)
(* the order syn visits them.                                              *)

AWS_SDK_PREFIX == <<"a", "w", "s", "_", "s", "d", "k", "_">>

\* the identifier Client of a type or a constructor path
ClientIdent == <<"C", "l", "i", "e", "n", "t">>

Node(kind, ident, segments, children) ==
    [node |-> kind, ident |-> ident, segments |-> segments, children |-> children]

ExprPath(segments) == Node("ExprPath", None, segments, <<>>)
\* Expr::Field with Member::Named(field_name), with Member::Unnamed(_)
ExprFieldNamed(base, field_name) == Node("ExprField", Some(field_name), <<>>, <<base>>)
ExprFieldUnnamed(base) == Node("ExprField", None, <<>>, <<base>>)
ExprMethodCall(receiver, method, args) ==
    Node("ExprMethodCall", Some(method), <<>>, <<receiver>> \o args)
ExprCall(func, args) == Node("ExprCall", None, <<>>, <<func>> \o args)
ExprClosure(body) == Node("ExprClosure", None, <<>>, <<body>>)
ExprBlock(stmts) == Node("ExprBlock", None, <<>>, stmts)
ExprIndex(expr, index) == Node("ExprIndex", None, <<>>, <<expr, index>>)
ExprLit == Node("ExprLit", None, <<>>, <<>>)
\* let pat = init; pat is the identifier of a Pat::Ident, None for any other
Local(pat, init) == Node("Local", pat, <<>>, init)
TypePath(segments) == Node("TypePath", None, segments, <<>>)
TypeReference(elem) == Node("TypeReference", None, <<>>, <<elem>>)
FnArgTyped(pat, ty) == Node("FnArgTyped", pat, <<>>, <<ty>>)
FnArgReceiver == Node("FnArgReceiver", None, <<>>, <<>>)

ItemFn(inputs, stmts) == [sig |-> inputs, block |-> stmts]

\* str::starts_with, str::contains
starts_with(str, pat) == Len(str) >= Len(pat) /\ SubSeq(str, 1, Len(pat)) = pat

str_contains(str, pat) ==
    \E i \in 1..(Len(str) - Len(pat) + 1) : SubSeq(str, i, i + Len(pat) - 1) = pat

\* Vec::pop
pop(v) == IF v = <<>> THEN None ELSE Some(v[Len(v)])
popped(v) == IF v = <<>> THEN v ELSE SubSeq(v, 1, Len(v) - 1)

\* Iterator::find
find_segment(v, pat) ==
    IF \E i \in 1..Len(v) : str_contains(v[i], pat)
    THEN Some(v[CHOOSE i \in 1..Len(v) :
                    str_contains(v[i], pat) /\ \A j \in 1..(i - 1) : ~str_contains(v[j], pat)])
    ELSE None

\* Option::map(|v| v.replace(AWS_SDK_PREFIX, ""))
without_prefix(option) ==
    IF option = None THEN None ELSE Some(Remove(option[1], AWS_SDK_PREFIX))

\* variant: the first segment with the prefix, wherever it stands
first_prefixed_segment(segments_as_strings) ==
    find_segment(segments_as_strings, AWS_SDK_PREFIX)

\* visitor.rs 384-391: Option::filter(starts_with) of the segment before the last
earlier_segment(segments_as_strings) ==
    IF pop(segments_as_strings) # None /\ starts_with(pop(segments_as_strings)[1], AWS_SDK_PREFIX)
    THEN pop(segments_as_strings)
    ELSE None

\* visitor.rs 376-406: the closure of filter_map
client_of_argument(i) ==
    IF /\ i.node = "FnArgTyped"
       /\ i.children[1].node = "TypePath"
       /\ i.children[1].segments # <<>>
       /\ pop(i.children[1].segments) = Some(ClientIdent)
    THEN Some(Client(i.ident, without_prefix(earlier_segment(popped(i.children[1].segments)))))
    ELSE None

\* visitor.rs 373-413: the clients of the parameters, each once
analyze_signature(sig) ==
    {client_of_argument(sig[k])[1] : k \in {j \in 1..Len(sig) : client_of_argument(sig[j]) # None}}

\* visitor.rs 341-366: the client that a local declaration creates, if any
client_of_local(local) ==
    IF /\ local.children # <<>>
       /\ local.children[1].node = "ExprCall"
       /\ local.children[1].children[1].node = "ExprPath"
       /\ ClientIdent \in Range(local.children[1].children[1].segments)
    THEN Some(Client(local.ident,
                     without_prefix(find_segment(local.children[1].children[1].segments,
                                                 AWS_SDK_PREFIX))))
    ELSE None

\* HashSet::insert: an element that is new can come anywhere in the iteration
insert(set, option) ==
    IF option = None \/ option[1] \in Range(set) THEN {set}
    ELSE {SubSeq(set, 1, i) \o option \o SubSeq(set, i + 1, Len(set)) : i \in 0..Len(set)}

\* variant: the first segment of a path names the receiver
first_segment_or_field(receiver) ==
    IF receiver.node = "ExprPath" THEN <<Head(receiver.segments)>>
    ELSE IF receiver.node = "ExprField" THEN receiver.ident
    ELSE None

\* visitor.rs 306-334: the receiver that is recorded for a call
receiver_of(receiver) ==
    IF receiver.node = "ExprPath" THEN pop(receiver.segments)
    ELSE IF receiver.node = "ExprField" THEN receiver.ident
    ELSE None

\* variant: the nodes below a call are not visited
visit_nothing(node, rest) == rest

\* syn::visit: the nodes below node are visited before the nodes after it
visit_below(node, rest) == node.children \o rest

NoItem == ItemFn(<<>>, <<>>)

\* the state of a macro that is not visiting the item
NotVisiting ==
    /\ item = NoItem
    /\ pending = <<>>

----------------------------------------------------------------------------
(* The inputs: knowledge bases, recorded calls, clients, selected SDKs *)

MaxCalls == 3
MaxClients == 2
MaxSelected == 2

Entry(sdk, props) == [key |-> sdk, value |-> props]

\* the required properties of the tests of visitor.rs, as method :> entries.
\* Every list holds a property: the table is generated from the SDK
\* documentation, and a method without required properties gets no record.
KbEmpty == <<>>
KbOneSdk == send_message :> {Entry(s3, <<required_call, required_call_that_is_missing>>)}
KbTwoMethods == KbOneSdk @@ receive_message :> {Entry(s3, <<required_call>>)}
KbDifferent ==
    KbOneSdk @@ some_call :> {Entry(s3, <<required_call>>), Entry(sqs, <<different_call>>)}
KbIdentical == some_call :> {Entry(s3, <<required_call>>), Entry(sqs, <<required_call>>)}
KbSend == KbOneSdk @@ AWS_SDK_SEND :> {Entry(s3, <<required_call>>)}

\* a third SDK, of another method
KbThreeSdks == KbDifferent @@ receive_message :> {Entry(sns, <<required_call>>)}

KnowledgeBases == {KbEmpty, KbOneSdk, KbTwoMethods, KbDifferent, KbIdentical, KbSend}

\* a knowledge base with every iteration order of its per-method maps
RequiredPropertiesMaps(kb) ==
    {m \in [DOMAIN kb -> UNION {HashOrders(kb[method]) : method \in DOMAIN kb}] :
        \A method \in DOMAIN kb : m[method] \in HashOrders(kb[method])}

Receivers == {None, Some(sqs_client), Some(client)}

\* let sqs_client = Client::new(..), client: aws_sdk_s3::Client, client: Client
FunctionClients ==
    {Client(Some(sqs_client), None), Client(Some(client), Some(s3)), Client(Some(client), None)}

\* and: a pattern that is no identifier, sqs_client: aws_sdk_dynamodb::Client,
\* let sqs = Client::new(..), let client = aws_sdk_sqs::Client::new(..)
Clients ==
    FunctionClients
    \cup {Client(None, Some(sqs)), Client(Some(sqs_client), Some(dynamodb)),
          Client(Some(sqs), None), Client(Some(client), Some(sqs))}

Sdks == {s3, sqs, sns}

\* #[required_props], #[required_props(sdk = sqs)], #[required_props(sdk = s3,sqs)]
SelectedSdks == {<<>>, <<sqs>>, <<s3, sqs>>}

MethodCallWithReceiver(method_call, receiver) ==
    [method_call |-> method_call, receiver |-> receiver]

\* calls of SDK functions on any receiver, and a call that sets an argument
SdkCalls(kb) ==
    {MethodCallWithReceiver(m, r) : m \in DOMAIN kb, r \in Receivers}
    \cup {MethodCallWithReceiver(required_call, None)}

\* and other calls and sends; the receiver is read of SDK functions only
MethodCalls(kb) ==
    SdkCalls(kb) \cup {MethodCallWithReceiver(m, None) : m \in {unknown, AWS_SDK_SEND}}

SeqsUpTo(S, n) == UNION {[1..k -> S] : k \in 0..n}

HashSets(S, n) == UNION {HashOrders(T) : T \in {U \in SUBSET S : Cardinality(U) <= n}}

Self == [clients |-> clients, method_calls |-> method_calls, required_props |-> required_props]

----------------------------------------------------------------------------
(* The analysis of one function: MethodVisitor::new has recorded the calls *)
(* and the clients, required_props calls find_improper_usages.  Functions  *)
(* without clients and attribute take any calls; functions with clients,   *)
(* and functions with selected SDKs and at most one client, take one call  *)
(* less and no calls besides SDK functions and argument setters.           *)

Init ==
    /\ \E kb \in KnowledgeBases :
          /\ required_props \in RequiredPropertiesMaps(kb)
          /\ \/ /\ method_calls \in SeqsUpTo(MethodCalls(kb), MaxCalls)
                /\ clients = <<>>
                /\ selected_sdks = <<>>
             \/ /\ method_calls \in SeqsUpTo(SdkCalls(kb), MaxCalls - 1)
                /\ clients \in HashSets(FunctionClients, MaxClients)
                /\ selected_sdks = <<>>
             \/ /\ method_calls \in SeqsUpTo(SdkCalls(kb), MaxCalls - 1)
                /\ clients \in HashSets(FunctionClients, 1)
                /\ selected_sdks \in SelectedSdks \ {<<>>}
    /\ initial = Rev([i \in 1..Len(method_calls) |-> i])
    /\ results = <<>>
    /\ pc = "loop"
    /\ last = NoLocals
    /\ call = None
    /\ resolved = None
    /\ error = None
    /\ errors = <<>>
    /\ NotLoading
    /\ NotVisiting

\* the assignments of an iteration it that takes one of the branches; a
\* panic unwinds out of the macro
Iterate(branches, it) ==
    /\ pc = "loop"
    /\ initial # <<>>
    /\ it.locals.branch \in branches
    /\ Len(it.results) <= MaxFindings
    /\ initial' = it.initial
    /\ results' = it.results
    /\ last' = it.locals
    /\ pc' = IF it.locals.branch = "panicked" THEN "panicked"
             ELSE IF it.returned THEN "done" ELSE "loop"
    /\ UNCHANGED <<clients, method_calls, required_props, selected_sdks,
                   call, resolved, error, methods_with_required_props, lines,
                   required_props_as_vec, required_props_map, item, pending,
                   errors>>

\* visitor.rs 55-57: no SDK function is left
ReturnNoneRelevant ==
    Iterate({"empty"}, iteration(Self, selected_sdks, initial, results))

\* visitor.rs 74-88: the receiver is none of the clients
SkipOtherReceiver ==
    Iterate({"skipped"}, iteration(Self, selected_sdks, initial, results))

\* visitor.rs 90-100: no required properties are returned
ReturnUnknown ==
    Iterate({"unknown", "panicked"}, iteration(Self, selected_sdks, initial, results))

\* visitor.rs 111-122: required arguments are missing
PushImproper ==
    Iterate({"improper"}, iteration(Self, selected_sdks, initial, results))

\* visitor.rs 111, 120-122: nothing is missing
NothingMissing ==
    Iterate({"complete"}, iteration(Self, selected_sdks, initial, results))

\* visitor.rs 48, 125: the list is empty
LoopExit ==
    /\ pc = "loop"
    /\ initial = <<>>
    /\ pc' = "done"
    /\ UNCHANGED <<clients, method_calls, required_props, selected_sdks,
                   initial, results, last, call, resolved, error,
                   methods_with_required_props, lines, required_props_as_vec,
                   required_props_map, item, pending, errors>>

Next ==
    \/ ReturnNoneRelevant
    \/ SkipOtherReceiver
    \/ ReturnUnknown
    \/ PushImproper
    \/ NothingMissing
    \/ LoopExit

Spec == Init /\ [][Next]_vars

----------------------------------------------------------------------------
(* get_required_props_for on its own, as its tests call it: any method of  *)
(* the knowledge base on any receiver, any clients, any selected SDKs.     *)

InitResolve ==
    /\ \E kb \in (KnowledgeBases \ {KbEmpty}) \cup {KbThreeSdks} :
          /\ required_props \in RequiredPropertiesMaps(kb)
          /\ \E m \in DOMAIN kb, r \in Receivers :
                call = Some(MethodCallWithReceiver(m, r))
    /\ clients \in HashSets(Clients, MaxClients)
    /\ selected_sdks \in SeqsUpTo(Sdks, MaxSelected)
    /\ method_calls = <<>>
    /\ initial = <<>>
    /\ results = <<>>
    /\ pc = "call"
    /\ last = NoLocals
    /\ resolved = None
    /\ error = None
    /\ errors = <<>>
    /\ NotLoading
    /\ NotVisiting

Resolve ==
    /\ pc = "call"
    /\ resolved' = Some(get_required_props_for(Self, call[1], selected_sdks))
    /\ pc' = "returned"
    /\ UNCHANGED <<clients, method_calls, required_props, selected_sdks,
                   initial, results, last, call, error,
                   methods_with_required_props, lines, required_props_as_vec,
                   required_props_map, item, pending, errors>>

NextResolve == Resolve

SpecResolve == InitResolve /\ [][NextResolve]_vars

\* tables the loader accepts in which a record names no argument
\* (required_properties.rs 26: an empty field splits into no word), or in
\* which two SDKs name the same arguments in a different order
KbNoneRequired == some_call :> {Entry(s3, <<>>), Entry(sqs, <<required_call>>)}
KbNoneRequiredOfThree ==
    some_call :> {Entry(s3, <<>>), Entry(sqs, <<required_call>>), Entry(sns, <<different_call>>)}
KbReordered ==
    some_call :> {Entry(s3, <<required_call, different_call>>),
                  Entry(sqs, <<different_call, required_call>>)}

InitSame ==
    /\ \E kb \in {KbNoneRequired, KbNoneRequiredOfThree, KbReordered, KbDifferent, KbIdentical} :
          /\ required_props \in RequiredPropertiesMaps(kb)
          /\ \E r \in Receivers : call = Some(MethodCallWithReceiver(some_call, r))
    /\ clients \in HashSets(Clients, MaxClients)
    /\ selected_sdks \in SeqsUpTo(Sdks, MaxSelected)
    /\ method_calls = <<>>
    /\ initial = <<>>
    /\ results = <<>>
    /\ pc = "call"
    /\ last = NoLocals
    /\ resolved = None
    /\ error = None
    /\ errors = <<>>
    /\ NotLoading
    /\ NotVisiting

NextSame == Resolve

SpecSame == InitSame /\ [][NextSame]_vars

----------------------------------------------------------------------------
(* The macro required_props: the knowledge base is loaded, the SDKs of the *)
(* attribute are validated against it, and only then is the item visited   *)
(* and analysed.  method_calls and clients are what MethodVisitor::new     *)
(* records of the item at lib.rs 35.                                       *)

COMMA_WITH_SPACE == <<",", " ">>

\* the names of Vec<&str> service_names, used by contains only
service_names(map) ==
    UNION {Range(keys(map[method])) : method \in DOMAIN map}

Valid == [ok |-> TRUE]
Invalid(e) == [ok |-> FALSE, e |-> e]

\* variant: only the first name that is not found is reported
first_not_found(map, selected) ==
    IF \E i \in 1..Len(selected) : selected[i] \notin service_names(map)
    THEN Invalid(selected[CHOOSE i \in 1..Len(selected) :
                             /\ selected[i] \notin service_names(map)
                             /\ \A j \in 1..(i - 1) : selected[j] \in service_names(map)])
    ELSE Valid

\* required_properties.rs 39-54
not_found(map, selected) ==
    SelectSeq(selected, LAMBDA sdk : sdk \notin service_names(map))

valid_sdks(map, selected) ==
    IF not_found(map, selected) # <<>>
    THEN Invalid(Join(not_found(map, selected), COMMA_WITH_SPACE))
    ELSE Valid

\* lib.rs 25-31: the error at the span of the attribute, format!("..: {}", e)
ConfigurationError(e) ==
    [message |-> "some of the SDKs you specified do not exist in our list of supported SDKs: ",
     e |-> e]

InitMacro ==
    /\ \E kb \in KnowledgeBases :
          /\ required_props \in RequiredPropertiesMaps(kb)
          /\ \/ /\ method_calls \in SeqsUpTo(SdkCalls(kb), 1)
                /\ clients = <<>>
                /\ selected_sdks \in SeqsUpTo(Sdks, MaxSelected)
             \/ /\ method_calls \in SeqsUpTo(SdkCalls(kb), MaxCalls - 1)
                /\ clients \in HashSets(FunctionClients, 1)
                /\ selected_sdks = <<>>
    /\ initial = <<>>
    /\ results = <<>>
    /\ pc = "macro"
    /\ last = NoLocals
    /\ call = None
    /\ resolved = None
    /\ error = None
    /\ errors = <<>>
    /\ NotLoading
    /\ NotVisiting

\* lib.rs 22-33: an SDK is not in the list, the macro returns the error
ReturnConfigurationError ==
    /\ pc = "macro"
    /\ ~valid_sdks(required_props, selected_sdks).ok
    /\ error' = Some(ConfigurationError(valid_sdks(required_props, selected_sdks).e))
    /\ pc' = "config_error"
    /\ UNCHANGED <<clients, method_calls, required_props, selected_sdks,
                   initial, results, last, call, resolved,
                   methods_with_required_props, lines, required_props_as_vec,
                   required_props_map, item, pending, errors>>

\* lib.rs 22-24, 35-36, visitor.rs 44-46: the SDKs are valid, the analysis starts
CallFindImproperUsages ==
    /\ pc = "macro"
    /\ valid_sdks(required_props, selected_sdks).ok
    /\ initial' = Rev([i \in 1..Len(method_calls) |-> i])
    /\ pc' = "loop"
    /\ UNCHANGED <<clients, method_calls, required_props, selected_sdks,
                   results, last, call, resolved, error,
                   methods_with_required_props, lines, required_props_as_vec,
                   required_props_map, item, pending, errors>>

NextMacro ==
    \/ ReturnConfigurationError
    \/ CallFindImproperUsages
    \/ ReturnNoneRelevant
    \/ SkipOtherReceiver
    \/ ReturnUnknown
    \/ PushImproper
    \/ NothingMissing
    \/ LoopExit

SpecMacro == InitMacro /\ [][NextMacro]_vars

----------------------------------------------------------------------------
(* Loading the table: map is lazy, so the lines are turned into records    *)
(* one after the other and a panic leaves the rest unread; the fold then   *)
(* takes the records in their order.  The tables are every text of up to   *)
(* MaxText characters, and the texts of up to MaxRecords records of three  *)
(* fields.                                                                 *)

MaxText == 6

TableChars == {COMMA, NEWLINE, SPACE, "a", "b"}

MaxRecords == 2

\* the records service,method,arguments of the services and methods a and b
TableRecords ==
    {service \o <<COMMA>> \o method \o <<COMMA>> \o arguments :
        service \in {<<"a">>, <<"b">>}, method \in {<<"a">>, <<"b">>},
        arguments \in {<<>>, <<"a">>, <<"a", SPACE, "b">>, <<SPACE, "b", SPACE, SPACE, "a">>}}

\* the tables of up to MaxRecords such records, one per line
TablesOfRecords ==
    {Join(records, <<NEWLINE>>) : records \in SeqsUpTo(TableRecords, MaxRecords)}

InitLoad ==
    /\ methods_with_required_props \in SeqsUpTo(TableChars, MaxText) \cup TablesOfRecords
    /\ lines = non_empty_lines(methods_with_required_props)
    /\ required_props_as_vec = <<>>
    /\ required_props_map = <<>>
    /\ required_props = <<>>
    /\ clients = <<>>
    /\ method_calls = <<>>
    /\ selected_sdks = <<>>
    /\ initial = <<>>
    /\ results = <<>>
    /\ pc = "load"
    /\ last = NoLocals
    /\ call = None
    /\ resolved = None
    /\ error = None
    /\ errors = <<>>
    /\ NotVisiting

\* required_properties.rs 17-27: a line becomes a record
MapRecord ==
    /\ pc = "load"
    /\ lines # <<>>
    /\ record_of(Head(lines)) # Panicked
    /\ required_props_as_vec' = Append(required_props_as_vec, record_of(Head(lines)))
    /\ lines' = Tail(lines)
    /\ UNCHANGED <<clients, method_calls, required_props, selected_sdks,
                   initial, results, pc, last, call, resolved, error,
                   methods_with_required_props, required_props_map, item,
                   pending, errors>>

\* required_properties.rs 24-25: an expect fails
MapRecordPanics ==
    /\ pc = "load"
    /\ lines # <<>>
    /\ record_of(Head(lines)) = Panicked
    /\ pc' = "panicked"
    /\ UNCHANGED <<clients, method_calls, required_props, selected_sdks,
                   initial, results, last, call, resolved, error,
                   methods_with_required_props, lines, required_props_as_vec,
                   required_props_map, item, pending, errors>>

\* required_properties.rs 29-36: a record is added to the map
FoldRecord ==
    /\ pc = "load"
    /\ lines = <<>>
    /\ required_props_as_vec # <<>>
    /\ required_props_map' = fold_record(required_props_map, Head(required_props_as_vec))
    /\ required_props_as_vec' = Tail(required_props_as_vec)
    /\ UNCHANGED <<clients, method_calls, required_props, selected_sdks,
                   initial, results, pc, last, call, resolved, error,
                   methods_with_required_props, lines, item, pending, errors>>

\* lib.rs 20: the map is returned, the hash maps get their iteration order
ReturnMap ==
    /\ pc = "load"
    /\ lines = <<>>
    /\ required_props_as_vec = <<>>
    /\ required_props' \in RequiredPropertiesMaps(required_props_map)
    /\ pc' = "loaded"
    /\ UNCHANGED <<clients, method_calls, selected_sdks, initial, results,
                   last, call, resolved, error, methods_with_required_props,
                   lines, required_props_as_vec, required_props_map, item,
                   pending, errors>>

NextLoad ==
    \/ MapRecord
    \/ MapRecordPanics
    \/ FoldRecord
    \/ ReturnMap

SpecLoad == InitLoad /\ [][NextLoad]_vars

----------------------------------------------------------------------------
(* The visit of an item.  The items are functions with parameters and an   *)
(* empty body, functions of local declarations, and functions of one chain *)
(* of calls on any shape of receiver, with and without calls in the        *)
(* arguments.                                                              *)

MaxParams == 2
MaxLocals == 2
MaxChain == 3

self_ident == <<"s", "e", "l", "f">>
new_ident == <<"n", "e", "w">>
queue_url == <<"q", "u", "e", "u", "e", "_", "u", "r", "l">>
aws_sdk_sqs == AWS_SDK_PREFIX \o sqs
\* a module of the crate that wraps the SDK: my_aws_sdk_sqs::Client::new()
my_aws_sdk_sqs == <<"m", "y", "_">> \o aws_sdk_sqs
String == <<"S", "t", "r", "i", "n", "g">>

\* client: Client, client: aws_sdk_sqs::Client, _: Client, &self, ..
FnArgs ==
    {FnArgTyped(pat, ty) :
        pat \in {Some(client), None},
        ty \in {TypePath(<<ClientIdent>>), TypePath(<<aws_sdk_sqs, ClientIdent>>),
                TypePath(<<aws_sdk_sqs, client, ClientIdent>>), TypePath(<<String>>),
                TypeReference(TypePath(<<aws_sdk_sqs, ClientIdent>>))}}
    \cup {FnArgReceiver}

\* sqs_client, s3::client, self.sqs_client, client.0, client[0], new(),
\* client.some_call().sqs_client
ReceiverShapes ==
    {ExprPath(<<sqs_client>>), ExprPath(<<s3, client>>),
     ExprFieldNamed(ExprPath(<<self_ident>>), sqs_client),
     ExprFieldUnnamed(ExprPath(<<client>>)),
     ExprIndex(ExprPath(<<client>>), ExprLit),
     ExprCall(ExprPath(<<new_ident>>), <<>>),
     ExprFieldNamed(ExprMethodCall(ExprPath(<<client>>), some_call, <<>>), sqs_client)}

\* no argument; a call as argument; a closure and a block with calls
Arguments ==
    {<<>>,
     <<ExprMethodCall(ExprPath(<<queue_url>>), different_call, <<>>)>>,
     <<ExprClosure(ExprMethodCall(ExprPath(<<client>>), required_call, <<ExprLit>>)),
       ExprBlock(<<Local(Some(client), <<ExprLit>>),
                   ExprMethodCall(ExprLit, some_call, <<>>)>>)>>}

\* the chains of n calls
RECURSIVE Chains(_)
Chains(n) ==
    IF n = 0 THEN ReceiverShapes
    ELSE {ExprMethodCall(r, m, args) :
             r \in Chains(n - 1), m \in {send_message, AWS_SDK_SEND}, args \in Arguments}

\* let sqs_client = aws_sdk_sqs::Client::new(), let _ = Client::new(), ..
LocalDeclarations ==
    {Local(pat, init) :
        pat \in {Some(sqs_client), None},
        init \in {<<>>,
                  <<ExprCall(ExprPath(<<aws_sdk_sqs, ClientIdent, new_ident>>), <<>>)>>,
                  <<ExprCall(ExprPath(<<ClientIdent, new_ident>>),
                             <<ExprMethodCall(ExprPath(<<client>>), some_call, <<>>)>>)>>,
                  <<ExprCall(ExprPath(<<client, aws_sdk_sqs, new_ident>>), <<>>)>>,
                  <<ExprCall(ExprPath(<<my_aws_sdk_sqs, ClientIdent, new_ident>>), <<>>)>>,
                  <<ExprMethodCall(ExprCall(ExprPath(<<ClientIdent, new_ident>>), <<>>),
                                   some_call, <<>>)>>}}

Items ==
    {ItemFn(inputs, stmts) :
        inputs \in SeqsUpTo(FnArgs, MaxParams), stmts \in {<<>>}}
    \cup {ItemFn(<<>>, stmts) : stmts \in SeqsUpTo(LocalDeclarations, MaxLocals)}
    \cup {ItemFn(<<>>, <<chain>>) : chain \in UNION {Chains(n) : n \in 1..MaxChain}}

InitVisit ==
    /\ item \in Items
    /\ pending = <<>>
    /\ clients = <<>>
    /\ method_calls = <<>>
    /\ required_props = <<>>
    /\ selected_sdks = <<>>
    /\ initial = <<>>
    /\ results = <<>>
    /\ pc = "new"
    /\ last = NoLocals
    /\ call = None
    /\ resolved = None
    /\ error = None
    /\ errors = <<>>
    /\ NotLoading

\* visitor.rs 33-39: the visitor is made, the visit of the item begins
AnalyzeSignature ==
    /\ pc = "new"
    /\ clients' \in HashOrders(analyze_signature(item.sig))
    /\ pending' = item.block
    /\ pc' = "visit"
    /\ UNCHANGED <<method_calls, required_props, selected_sdks, initial,
                   results, last, call, resolved, error,
                   methods_with_required_props, lines, required_props_as_vec,
                   required_props_map, item, errors>>

\* visitor.rs 303-338
VisitExprMethodCall ==
    /\ pc = "visit"
    /\ pending # <<>>
    /\ Head(pending).node = "ExprMethodCall"
    /\ method_calls' = Append(method_calls,
                              MethodCallWithReceiver(Head(pending).ident[1],
                                                     receiver_of(Head(pending).children[1])))
    /\ pending' = visit_below(Head(pending), Tail(pending))
    /\ UNCHANGED <<clients, required_props, selected_sdks, initial, results,
                   pc, last, call, resolved, error,
                   methods_with_required_props, lines, required_props_as_vec,
                   required_props_map, item, errors>>

\* visitor.rs 340-370
VisitLocal ==
    /\ pc = "visit"
    /\ pending # <<>>
    /\ Head(pending).node = "Local"
    /\ clients' \in insert(clients, client_of_local(Head(pending)))
    /\ pending' = visit_below(Head(pending), Tail(pending))
    /\ UNCHANGED <<method_calls, required_props, selected_sdks, initial,
                   results, pc, last, call, resolved, error,
                   methods_with_required_props, lines, required_props_as_vec,
                   required_props_map, item, errors>>

\* syn::visit: any other node, the methods the visitor does not override
VisitNode ==
    /\ pc = "visit"
    /\ pending # <<>>
    /\ Head(pending).node \notin {"ExprMethodCall", "Local"}
    /\ pending' = visit_below(Head(pending), Tail(pending))
    /\ UNCHANGED <<clients, method_calls, required_props, selected_sdks,
                   initial, results, pc, last, call, resolved, error,
                   methods_with_required_props, lines, required_props_as_vec,
                   required_props_map, item, errors>>

\* visitor.rs 40-41: the item is visited, new returns the visitor
ReturnVisitor ==
    /\ pc = "visit"
    /\ pending = <<>>
    /\ pc' = "visited"
    /\ UNCHANGED <<clients, method_calls, required_props, selected_sdks,
                   initial, results, last, call, resolved, error,
                   methods_with_required_props, lines, required_props_as_vec,
                   required_props_map, item, pending, errors>>

NextVisit ==
    \/ AnalyzeSignature
    \/ VisitExprMethodCall
    \/ VisitLocal
    \/ VisitNode
    \/ ReturnVisitor

SpecVisit == InitVisit /\ [][NextVisit]_vars

----------------------------------------------------------------------------
(* The compile errors: required_props turns every finding into an error    *)
(* with a message, one after the other.  The findings are any unknown      *)
(* usage of up to MaxSdks SDKs in any order, alone or after an improper    *)
(* usage.                                                                  *)

MaxSdks == 6

ABBREVIATED_LIST ==
    <<".", ".", ".", " ", "(", "a", "b", "b", "r", "e", "v", "i", "a", "t", "e", "d",
      " ", "l", "i", "s", "t", ")">>

\* the character U+0060, written as an apostrophe
BACKTICK == "'"

s3control == s3 \o <<"c", "o", "n", "t", "r", "o", "l">>

\* variant: the first five SDKs as they come
first_five_unsorted(sdks) ==
    IF Len(sdks) <= 5 THEN Join(sdks, COMMA_WITH_SPACE)
    ELSE Join(SubSeq(sdks, 1, 5), COMMA_WITH_SPACE) \o ABBREVIATED_LIST

\* lib.rs 51-55, of the sorted SDKs
joined_or_abbreviated(sdks) ==
    IF Len(sdks) <= 5 THEN Join(sdks, COMMA_WITH_SPACE)
    ELSE Join(SubSeq(sdks, 1, 5), COMMA_WITH_SPACE) \o ABBREVIATED_LIST

\* lib.rs 50-55
sdks_to_show(sdks) == joined_or_abbreviated(Sort(sdks))

\* lib.rs 56-58
first_sdk_option(sdks) == first_or(Sort(sdks), sqs)

\* lib.rs 44: every missing argument between backticks
quoted(missing) == [i \in 1..Len(missing) |-> <<BACKTICK>> \o missing[i] \o <<BACKTICK>>]

\* lib.rs 45-46, 59-60: the error at the span of the finding; the message is
\* the text of format! with its arguments
CompileError(span, message, arguments) ==
    [span |-> span, message |-> message, arguments |-> arguments]

\* lib.rs 41-62: the closure of map
compile_error(usage) ==
    IF usage.kind = "Improper"
    THEN CompileError(usage.span,
                      "method '{}' (from {}) is missing required argument(s): {}",
                      <<usage.method, usage.sdk, Join(quoted(usage.missing), COMMA_WITH_SPACE)>>)
    ELSE CompileError(usage.span,
                      "method '{}' is used in multiple SDKs: {}. Please add the right one(s) to the attribute, e.g. '#[required_props(sdk = {})]'",
                      <<usage.method, sdks_to_show(usage.sdks), first_sdk_option(usage.sdks)>>)

ReportedSdks == {s3, sqs, sns, dynamodb, s3control, <<"s">>}

UnknownUsages ==
    {Unknown(1, some_call, sdks) : sdks \in HashSets(ReportedSdks, MaxSdks)}

ImproperUsages ==
    {Improper(2, send_message, <<required_call>>, s3),
     Improper(2, send_message, <<required_call, required_call_that_is_missing>>, sqs)}

InitReport ==
    /\ results \in {<<f>> : f \in UnknownUsages \cup ImproperUsages}
                   \cup {<<f, g>> : f \in ImproperUsages, g \in UnknownUsages}
    /\ errors = <<>>
    /\ pc = "report"
    /\ clients = <<>>
    /\ method_calls = <<>>
    /\ required_props = <<>>
    /\ selected_sdks = <<>>
    /\ initial = <<>>
    /\ last = NoLocals
    /\ call = None
    /\ resolved = None
    /\ error = None
    /\ NotLoading
    /\ NotVisiting

\* lib.rs 43-46: the next finding is an improper usage
ReportImproper ==
    /\ pc = "report"
    /\ Len(errors) < Len(results)
    /\ results[Len(errors) + 1].kind = "Improper"
    /\ errors' = Append(errors, compile_error(results[Len(errors) + 1]))
    /\ UNCHANGED <<clients, method_calls, required_props, selected_sdks,
                   initial, results, pc, last, call, resolved, error,
                   methods_with_required_props, lines, required_props_as_vec,
                   required_props_map, item, pending>>

\* lib.rs 48-61: the next finding is an unknown usage
ReportUnknown ==
    /\ pc = "report"
    /\ Len(errors) < Len(results)
    /\ results[Len(errors) + 1].kind = "Unknown"
    /\ errors' = Append(errors, compile_error(results[Len(errors) + 1]))
    /\ UNCHANGED <<clients, method_calls, required_props, selected_sdks,
                   initial, results, pc, last, call, resolved, error,
                   methods_with_required_props, lines, required_props_as_vec,
                   required_props_map, item, pending>>

\* lib.rs 64-68: the errors are returned in front of the item
ReturnErrors ==
    /\ pc = "report"
    /\ Len(errors) = Len(results)
    /\ pc' = "reported"
    /\ UNCHANGED <<clients, method_calls, required_props, selected_sdks,
                   initial, results, last, call, resolved, error,
                   methods_with_required_props, lines, required_props_as_vec,
                   required_props_map, item, pending, errors>>

NextReport ==
    \/ ReportImproper
    \/ ReportUnknown
    \/ ReturnErrors

SpecReport == InitReport /\ [][NextReport]_vars

----------------------------------------------------------------------------
(* The functions that record a given list of calls.  visit_expr_method_call *)
(* pushes a call and then visits its receiver, so a chain is recorded from *)
(* its last call to its first, and the statements one after the other.  A  *)
(* function is given by the indices at which a statement's calls end.      *)

Functions == SUBSET (1..(Len(method_calls) - 1))

statement_of(ends, k) == Cardinality({e \in ends : e < k})

\* call k stands after call l in the source of the function
occurs_later(ends, k, l) ==
    \/ statement_of(ends, k) > statement_of(ends, l)
    \/ statement_of(ends, k) = statement_of(ends, l) /\ k < l

----------------------------------------------------------------------------
(* Properties of find_improper_usages *)

Anchors == {i \in 1..Len(method_calls) : method_of(Self, i) \in DOMAIN required_props}

\* the window of the anchor recorded at index a: the anchor and the calls
\* analysed after it, as long as none is a send and each has the name of
\* the anchor or no name of the knowledge base
Window(a) ==
    {k \in 1..a : \A l \in k..a :
        /\ method_of(Self, l) # AWS_SDK_SEND
        /\ \/ method_of(Self, l) = method_of(Self, a)
           \/ method_of(Self, l) \notin DOMAIN required_props}

WindowNames(a) == {method_of(Self, k) : k \in Window(a)}

\* the calls below index n, as find_improper_usages holds them
Remaining(n) == [i \in 1..n |-> n + 1 - i]

\* C1: the missing arguments of an anchor that resolves to an SDK are the
\* required arguments of that SDK without the names of the calls in the
\* window of the anchor, in the order of the required arguments; they are
\* what the finding of the anchor lists, and no finding is pushed for none.
C1_MissingIsRequiredMinusWindow ==
    last.branch \in {"improper", "complete"} =>
        /\ last.missing = SelectSeq(last.required[1].props,
                                    LAMBDA a : a \notin WindowNames(last.span))
        /\ last.branch = "improper" =>
              /\ last.missing # <<>>
              /\ Last(results) = Improper(last.span, method_of(Self, last.span),
                                          last.missing, last.required[1].sdk)
        /\ last.branch = "complete" =>
              /\ last.missing = <<>>
              /\ \A k \in 1..Len(results) : results[k].span # last.span

C1_Witness ==
    /\ last.branch = "improper"
    /\ WindowNames(last.span) = {send_message, required_call, unknown}
    /\ last.required[1].props = <<required_call, required_call_that_is_missing>>
    /\ last.missing = <<required_call_that_is_missing>>

\* C3: when no recorded call has a name of the knowledge base, no finding
\* is returned and nothing panics, whatever the clients and selected SDKs.
C3_NoRelevantCallNoFinding ==
    Anchors = {} =>
        /\ results = <<>>
        /\ pc # "panicked"
        /\ last.branch \in {"none", "empty"}

C3_Witness ==
    /\ pc = "done"
    /\ Anchors = {}
    /\ method_calls # <<>>
    /\ DOMAIN required_props # {}
    /\ clients # <<>>
    /\ selected_sdks # <<>>
    /\ last.branch = "empty"

\* the anchor at index a has a receiver, there are clients, and none of
\* them has the name of the receiver
Filtered(a) ==
    /\ method_calls[a].receiver # None
    /\ clients # <<>>
    /\ \A c \in Range(clients) : c.name # method_calls[a].receiver

\* the SDK of a method that one SDK only has, and what it requires
TheSdk(a) == required_props[method_of(Self, a)][1].key
Required(a) == required_props[method_of(Self, a)][1].value
Missing(a) == SelectSeq(Required(a), LAMBDA c : c \notin WindowNames(a))

\* two anchors i and j of different statements, i in the earlier one, each
\* of one SDK only and not filtered by its receiver
TwoAnchors ==
    {p \in (1..Len(method_calls)) \X (1..Len(method_calls)) :
        /\ Anchors = {p[1], p[2]}
        /\ \E ends \in Functions : statement_of(ends, p[1]) < statement_of(ends, p[2])
        /\ \A a \in Anchors : Len(required_props[method_of(Self, a)]) = 1 /\ ~Filtered(a)}

\* both have a window of their own where arguments are missing
EachMissing(i, j) == i \notin Window(j) /\ Missing(i) # <<>> /\ Missing(j) # <<>>

\* C4, as the specification states it: the finding of the earlier
\* statement comes first.
C4_FindingsInSourceOrder ==
    pc = "done" =>
        \A p \in TwoAnchors : EachMissing(p[1], p[2]) =>
            results = <<Improper(p[1], method_of(Self, p[1]), Missing(p[1]), TheSdk(p[1])),
                        Improper(p[2], method_of(Self, p[2]), Missing(p[2]), TheSdk(p[2]))>>

\* C4: when find_improper_usages returns for two anchors of different
\* statements, each with a window where required arguments are missing,
\* it returns two findings, the one of the later statement first, each
\* with what is missing in the window of its anchor.  Two anchors of the
\* same method with no send between them share the window of the later
\* one and its finding.
C4_FindingsInReverseSourceOrder ==
    pc = "done" =>
        \A p \in TwoAnchors :
            /\ EachMissing(p[1], p[2]) =>
                  results = <<Improper(p[2], method_of(Self, p[2]), Missing(p[2]), TheSdk(p[2])),
                              Improper(p[1], method_of(Self, p[1]), Missing(p[1]), TheSdk(p[1]))>>
            /\ p[1] \in Window(p[2]) /\ Missing(p[2]) # <<>> =>
                  results = <<Improper(p[2], method_of(Self, p[2]), Missing(p[2]), TheSdk(p[2]))>>

C4_Witness ==
    /\ pc = "done"
    /\ \E p \in TwoAnchors :
          /\ EachMissing(p[1], p[2])
          /\ required_call \in WindowNames(p[2])
          /\ method_of(Self, p[1]) = receive_message
          /\ method_of(Self, p[2]) = send_message
    /\ Len(results) = 2

Unknowns == {k \in 1..Len(results) : results[k].kind = "Unknown"}

\* the SDKs of the method of a finding, each once
AllSdksOf(f) ==
    /\ Range(f.sdks) = {e.key : e \in Range(required_props[f.method])}
    /\ Len(f.sdks) = Len(required_props[f.method])

\* C5, as the specification states it: after the unknown usage there is
\* no finding for a call that stands later in the function.
C5_NoFindingLaterInSource ==
    \A u \in Unknowns :
        \A ends \in Functions : \A k \in 1..Len(results) :
            ~occurs_later(ends, results[k].span, results[u].span)

\* C5: when no rule gives an SDK for an anchor, one unknown usage with all
\* SDKs of its method is pushed and find_improper_usages returns: it is
\* the last finding, and there is no finding for a call analysed after the
\* anchor, that is for a call recorded before it.  The findings pushed
\* before, for the calls recorded after it, stay.
C5_UnknownUsageEndsAnalysis ==
    /\ \A u \in Unknowns :
          /\ u = Len(results)
          /\ pc = "done"
          /\ last.branch = "unknown"
          /\ results[u].span = last.span
          /\ results[u].method = method_of(Self, last.span)
          /\ AllSdksOf(results[u])
          /\ \A k \in 1..(u - 1) : results[k].span > results[u].span
    /\ last.branch = "unknown" => Unknowns # {}

C5_Witness ==
    /\ pc = "done"
    /\ last.branch = "unknown"
    /\ Len(results) = 2
    /\ results[1].kind = "Improper"
    /\ last.span > 1
    /\ Len(results[2].sdks) = 2

\* C6, as the specification states it: an iteration that does not return
\* leaves fewer calls than it found.
C6_EveryIterationRemovesACall ==
    pc = "loop" /\ last.branch \in {"skipped", "improper", "complete"} =>
        Len(initial) < Len(last.skip)

\* a finding without the order of the candidates of an unknown usage
Reported(f) ==
    IF f.kind = "Unknown" THEN [kind |-> f.kind, span |-> f.span, method |-> f.method] ELSE f

AllReported(v) == [k \in 1..Len(v) |-> Reported(v[k])]

\* the same visitor in every iteration order of its clients and its maps
OtherRuns ==
    {[clients |-> c, method_calls |-> method_calls, required_props |-> r] :
        c \in HashOrders(Range(clients)),
        r \in RequiredPropertiesMaps([m \in DOMAIN required_props |-> Range(required_props[m])])}

\* C7, as the specification states it: the findings do not depend on the
\* iteration order of the clients and of the SDKs of a method.
C7_Deterministic ==
    pc = "done" =>
        \A o \in OtherRuns :
            AllReported(find_improper_usages(o, selected_sdks)) = AllReported(results)

\* C8: an anchor with a receiver that none of the clients is named after,
\* when there are clients, gets no finding; its window is removed from
\* the remaining calls and the loop goes on with the calls after it.
C8_ReceiverFilter ==
    last.branch \notin {"none", "empty"} /\ Filtered(last.span) =>
        /\ last.branch = "skipped"
        /\ \A k \in 1..Len(results) : results[k].span # last.span
        /\ initial = Remaining(last.span - Cardinality(Window(last.span)))
        /\ pc = "loop" \/ (pc = "done" /\ initial = <<>>)

C8_Witness ==
    /\ Len(method_calls) = 2
    /\ 2 \in Anchors
    /\ Filtered(2)
    /\ Len(required_props[method_of(Self, 2)]) = 2
    /\ last.branch = "improper"
    /\ last.span = 1
    /\ Len(results) = 1
    /\ pc = "loop"

----------------------------------------------------------------------------
(* Properties of get_required_props_for *)

Candidates == required_props[call[1].method_call]

\* the sorted SDKs of a map
Sorted(map) ==
    CHOOSE v \in HashOrders(Range(keys(map))) :
        \A i, j \in 1..Len(v) : i < j => StrLess(v[i], v[j])

\* C2: for a method of one SDK only, that SDK and what it requires are
\* returned, whatever the selected SDKs, the receiver and the clients.
C2_OnlyOneSdk ==
    pc = "returned" /\ Len(Candidates) = 1 =>
        resolved = Some(Ok(Candidates[1].key, Candidates[1].value))

C2_Witness ==
    /\ pc = "returned"
    /\ Len(Candidates) = 1
    /\ resolved[1].sdk = s3
    /\ call[1].receiver = Some(sqs_client)
    /\ selected_sdks = <<sqs, sns>>
    /\ clients = <<Client(Some(sqs_client), Some(dynamodb)), Client(None, Some(sqs))>>

\* C9: for a method of several SDKs that all require the same, what they
\* require is returned with the sorted SDKs joined by commas, whatever
\* the selected SDKs, the receiver, the clients and the iteration order.
C9_AllTheSame ==
    /\ pc = "returned"
    /\ Len(Candidates) >= 2
    /\ \A i \in 1..Len(Candidates) : Candidates[i].value = Candidates[1].value
    => resolved = Some(Ok(Join(Sorted(Candidates), <<",">>), Candidates[1].value))

C9_Witness ==
    /\ pc = "returned"
    /\ keys(Candidates) = <<sqs, s3>>
    /\ resolved = Some(Ok(<<"s", "3", ",", "s", "q", "s">>, <<required_call>>))
    /\ selected_sdks = <<sqs>>
    /\ call[1].receiver = Some(sqs_client)
    /\ clients # <<>>

\* the names of the claim that lead to an SDK: the receiver or, without
\* one, the SDK and the name of the only client
Hints ==
    IF call[1].receiver # None THEN {call[1].receiver[1]}
    ELSE IF Len(clients) = 1 THEN Range(clients[1].sdk) \cup Range(clients[1].name)
    ELSE {}

HintedSdks == {try_to_get_sdk_from_name(h) : h \in Hints} \cap Range(keys(Candidates))

\* C10, as the specification states it: without selected SDKs, for a
\* method of SDKs that require different things, a receiver or an only
\* client that names one of the SDKs gives that SDK and what it requires.
C10_ReceiverOrClientNamesTheSdk ==
    /\ pc = "returned"
    /\ selected_sdks = <<>>
    /\ \E i \in 1..Len(Candidates) : Candidates[i].value # Candidates[1].value
    /\ HintedSdks # {}
    => \E sdk \in HintedSdks : resolved = Some(Ok(sdk, get(Candidates, sdk)))

\* the SDKs of the method require different things: neither one key
\* nor all the same
Differing ==
    /\ Len(Candidates) >= 2
    /\ \E i \in 1..Len(Candidates) : Candidates[i].value # Candidates[1].value

\* the selected SDKs that are SDKs of the method, in the order of the attribute
SelectedCandidates == SelectSeq(selected_sdks, LAMBDA sdk : contains_key(Candidates, sdk))

\* the receiver without "client" and "_", if there is one
ReceiverSdk ==
    IF call[1].receiver = None THEN None
    ELSE Some(try_to_get_sdk_from_name(call[1].receiver[1]))

\* C11, as the specification states it: the one selected SDK that is an SDK
\* of the method is returned with what it requires, wherever it stands.
C11_SingleSelectedCandidate ==
    pc = "returned" /\ Differing /\ Len(SelectedCandidates) = 1 =>
        resolved = Some(Ok(SelectedCandidates[1], get(Candidates, SelectedCandidates[1])))

\* C12, as the specification states it: of several selected SDKs of the
\* method the first is returned with what it requires, when the receiver
\* names none of them.
C12_FirstSelectedCandidate ==
    /\ pc = "returned"
    /\ Differing
    /\ Len(SelectedCandidates) > 1
    /\ \A sdk \in Range(ReceiverSdk) : sdk \notin Range(SelectedCandidates)
    => resolved = Some(Ok(SelectedCandidates[1], get(Candidates, SelectedCandidates[1])))

\* C13, as the specification states it: a receiver that names an SDK of the
\* method decides as soon as a selected SDK is an SDK of the method.
C13_ReceiverNamesCandidate ==
    /\ pc = "returned"
    /\ Differing
    /\ SelectedCandidates # <<>>
    /\ ReceiverSdk # None
    /\ contains_key(Candidates, ReceiverSdk[1])
    => resolved = Some(Ok(ReceiverSdk[1], get(Candidates, ReceiverSdk[1])))

\* C13: when several selected SDKs are SDKs of the method and the receiver,
\* without "client" and "_", is one of them, that SDK is returned with
\* what it requires.
C13_ReceiverBreaksTie ==
    /\ pc = "returned"
    /\ Differing
    /\ Len(SelectedCandidates) > 1
    /\ ReceiverSdk # None
    /\ ReceiverSdk[1] \in Range(SelectedCandidates)
    => resolved = Some(Ok(ReceiverSdk[1], get(Candidates, ReceiverSdk[1])))

C13_Witness ==
    /\ pc = "returned"
    /\ Differing
    /\ selected_sdks = <<s3, sqs>>
    /\ call[1].receiver = Some(sqs_client)
    /\ resolved = Some(Ok(sqs, <<different_call>>))
    /\ clients = <<Client(Some(client), Some(s3))>>

\* the SDKs of the method that a client leads to: the SDK it declares, or
\* its name without "client" and "_"
ClientSdks(c) ==
    {sdk \in Range(c.sdk) \cup {try_to_get_sdk_from_name(n) : n \in Range(c.name)} :
        contains_key(Candidates, sdk)}

MatchingClients == {c \in Range(clients) : ClientSdks(c) # {}}

\* C14: when neither the selected SDKs nor the name of the receiver give
\* an SDK of the method, several clients lead to one, and the receiver is
\* the name of one of these, the SDK of such a client is returned with
\* what it requires.
C14_ClientOfReceiver ==
    /\ pc = "returned"
    /\ Differing
    /\ SelectedCandidates = <<>>
    /\ ReceiverSdk # None
    /\ ~contains_key(Candidates, ReceiverSdk[1])
    /\ Cardinality(MatchingClients) > 1
    /\ \E c \in MatchingClients : c.name = call[1].receiver
    => \E c \in MatchingClients :
          /\ c.name = call[1].receiver
          /\ \E sdk \in ClientSdks(c) : resolved = Some(Ok(sdk, get(Candidates, sdk)))

C14_Witness ==
    /\ pc = "returned"
    /\ Differing
    /\ selected_sdks = <<sns>>
    /\ call[1].receiver = Some(client)
    /\ clients = <<Client(Some(client), Some(s3)), Client(Some(sqs_client), None)>>
    /\ resolved = Some(Ok(s3, <<required_call>>))

\* the services the knowledge base knows: those of any of its methods
KnownServices ==
    {sdk \in Sdks : \E method \in DOMAIN required_props :
                       \E i \in 1..Len(required_props[method]) :
                          required_props[method][i].key = sdk}

Offending == {i \in 1..Len(selected_sdks) : selected_sdks[i] \notin KnownServices}

\* the names at the positions I, in the order of the attribute
RECURSIVE NamesAt(_, _)
NamesAt(I, from) ==
    IF from > Len(selected_sdks) THEN <<>>
    ELSE (IF from \in I THEN <<selected_sdks[from]>> ELSE <<>>) \o NamesAt(I, from + 1)

\* C15: once the SDKs of the attribute are checked, there is a configuration
\* error exactly when one of them is no service of any method of the
\* knowledge base; the error names the offending SDKs in the order of the
\* attribute, joined by ", "; an empty list is accepted; and with an error
\* no analysis has run: no call was analysed and there is no finding.
C15_ConfigurationCheck ==
    pc # "macro" =>
        /\ error # None <=> Offending # {}
        /\ selected_sdks = <<>> => error = None
        /\ error # None =>
              /\ error[1].e = Join(NamesAt(Offending, 1), <<",", " ">>)
              /\ pc = "config_error"
              /\ results = <<>>
              /\ last = NoLocals

C15_Witness ==
    /\ pc = "config_error"
    /\ selected_sdks = <<sqs, sns>>
    /\ send_message \in DOMAIN required_props
    /\ error = Some(ConfigurationError(<<"s", "q", "s", ",", " ", "s", "n", "s">>))
    /\ Len(method_calls) = 1
    /\ results = <<>>

\* the records of the table: its lines that are not empty
Records == non_empty_lines(methods_with_required_props)

\* the number of comma-separated fields of a record
FieldCount(m) == 1 + Cardinality({i \in 1..Len(m) : m[i] = ","})

\* C16: a table with a non-empty record that has not exactly three
\* comma-separated fields is not loaded: no map is returned for it.
C16_WrongFieldCountIsFatal ==
    pc = "loaded" => \A k \in 1..Len(Records) : FieldCount(Records[k]) = 3

\* C17: every segment has at most one finding: no two findings are at the
\* same anchor, so there are no more findings than anchors; and the latest
\* iteration that compared the arguments pushed a finding exactly when
\* arguments were missing.
C17_AtMostOneFindingPerSegment ==
    /\ \A j, k \in 1..Len(results) : j # k => results[j].span # results[k].span
    /\ Len(results) <= Cardinality(Anchors)
    /\ last.branch \in {"improper", "complete"} =>
          (last.branch = "improper" <=> last.missing # <<>>)

\* C18: every client that client inference yields has a name or an SDK.
C18_NameOrSdk ==
    \A c \in Range(clients) : c.name # None \/ c.sdk # None

\* the receiver that is to be recorded for a call on the expression r
ExpectedReceiver(r) ==
    CASE r.node = "ExprPath" -> Some(r.segments[Len(r.segments)])
      [] r.node = "ExprField" /\ r.ident # None -> r.ident
      [] OTHER -> None

\* C19: the visit of a method call records the name of the method with, as
\* receiver, the last segment of a path, the name of a named field, and
\* nothing for an unnamed field and for every other expression.
C19_RecordedReceiver ==
    [][(pc = "visit" /\ pending # <<>> /\ Head(pending).node = "ExprMethodCall") =>
          method_calls' = Append(method_calls,
                                 [method_call |-> Head(pending).ident[1],
                                  receiver |-> ExpectedReceiver(Head(pending).children[1])])]_vars

C19_Witness ==
    /\ pc = "visited"
    /\ item.block = <<ExprMethodCall(
                         ExprMethodCall(ExprFieldNamed(ExprPath(<<self_ident>>), sqs_client),
                                        send_message, <<>>),
                         AWS_SDK_SEND, <<>>)>>
    /\ method_calls = <<MethodCallWithReceiver(AWS_SDK_SEND, None),
                        MethodCallWithReceiver(send_message, Some(sqs_client))>>

\* the names of the method calls in and below a node, and below nodes
RECURSIVE CallsIn(_), CallsBelow(_)
CallsIn(n) ==
    (IF n.node = "ExprMethodCall" THEN n.ident ELSE <<>>) \o CallsBelow(n.children)

CallsBelow(ns) == IF ns = <<>> THEN <<>> ELSE CallsIn(Head(ns)) \o CallsBelow(Tail(ns))

\* the methods of a chain r.m1().m2()...mk() from left to right, and r
RECURSIVE LeftToRight(_), ReceiverOfChain(_), WithoutArguments(_)
LeftToRight(e) ==
    IF e.node = "ExprMethodCall" THEN Append(LeftToRight(e.children[1]), e.ident[1]) ELSE <<>>

ReceiverOfChain(e) ==
    IF e.node = "ExprMethodCall" THEN ReceiverOfChain(e.children[1]) ELSE e

\* no call of the chain has an argument
WithoutArguments(e) ==
    e.node = "ExprMethodCall" => Len(e.children) = 1 /\ WithoutArguments(e.children[1])

Count(v, x) == Cardinality({i \in 1..Len(v) : v[i] = x})

\* C20: when a function of one chain r.m1()...mk() on a path r is visited,
\* the calls are recorded as mk, .., m1 and only m1 has the receiver r, so
\* the recorded list reversed is the chain from left to right; and every
\* call of the function, also in arguments, closures and blocks, is recorded
\* once.
C20_RecordingOrder ==
    pc = "visited" =>
        /\ \A m \in Range(CallsBelow(item.block))
                     \cup {method_calls[i].method_call : i \in 1..Len(method_calls)} :
              Count(CallsBelow(item.block), m)
                 = Cardinality({i \in 1..Len(method_calls) : method_calls[i].method_call = m})
        /\ \A k \in 1..Len(item.block) :
              (/\ Len(item.block) = 1
               /\ item.block[k].node = "ExprMethodCall"
               /\ WithoutArguments(item.block[k])
               /\ ReceiverOfChain(item.block[k]).node = "ExprPath") =>
                  /\ Rev([i \in 1..Len(method_calls) |-> method_calls[i].method_call])
                        = LeftToRight(item.block[k])
                  /\ \A i \in 1..(Len(method_calls) - 1) : method_calls[i].receiver = None
                  /\ method_calls[Len(method_calls)].receiver
                        = Some(Last(ReceiverOfChain(item.block[k]).segments))

C20_Witness ==
    /\ pc = "visited"
    /\ item.block = <<ExprMethodCall(
                         ExprMethodCall(
                            ExprMethodCall(ExprPath(<<sqs_client>>), send_message, <<>>),
                            send_message, <<>>),
                         AWS_SDK_SEND, <<>>)>>
    /\ method_calls = <<MethodCallWithReceiver(AWS_SDK_SEND, None),
                        MethodCallWithReceiver(send_message, None),
                        MethodCallWithReceiver(send_message, Some(sqs_client))>>

\* the parameters that are typed with a path that ends in Client
ClientParameters ==
    {k \in 1..Len(item.sig) :
        /\ item.sig[k].node = "FnArgTyped"
        /\ item.sig[k].children[1].node = "TypePath"
        /\ Last(item.sig[k].children[1].segments) = ClientIdent}

\* the segment before the last of the type of parameter k, if there is one
SecondToLast(k) ==
    IF Len(item.sig[k].children[1].segments) < 2 THEN None
    ELSE Some(item.sig[k].children[1].segments[Len(item.sig[k].children[1].segments) - 1])

\* the SDK of parameter k: that segment without aws_sdk_ if it starts with it
ServiceOf(k) ==
    IF /\ SecondToLast(k) # None
       /\ Len(SecondToLast(k)[1]) >= 8
       /\ SubSeq(SecondToLast(k)[1], 1, 8) = AWS_SDK_PREFIX
    THEN Some(SubSeq(SecondToLast(k)[1], 9, Len(SecondToLast(k)[1])))
    ELSE None

\* C21, as the specification states it: the clients of a function without
\* local declarations are those of its parameters typed with a path that
\* ends in Client, each with the SDK of the segment before and always with
\* a name, the name of the parameter.
C21_AlwaysTheParameterName ==
    pc # "new" /\ item.block = <<>> =>
        /\ Range(clients) = {Client(item.sig[k].ident, ServiceOf(k)) : k \in ClientParameters}
        /\ \A c \in Range(clients) : c.name # None

\* C21: the clients of a function without local declarations are those of
\* its parameters typed with a path that ends in Client, each with the SDK
\* of the segment before, and with the identifier of the parameter as name
\* when its pattern is an identifier and no name for any other pattern.
C21_ParameterRule ==
    pc # "new" /\ item.block = <<>> =>
        Range(clients) = {Client(item.sig[k].ident, ServiceOf(k)) : k \in ClientParameters}

C21_Witness ==
    /\ pc = "visited"
    /\ item.sig = <<FnArgTyped(Some(client), TypePath(<<aws_sdk_sqs, client, ClientIdent>>)),
                    FnArgTyped(None, TypePath(<<aws_sdk_sqs, ClientIdent>>))>>
    /\ Range(clients) = {Client(Some(client), None), Client(None, Some(sqs))}

\* the declarations of the body whose initializer is a call of a path with
\* a segment Client
ClientDeclarations ==
    {k \in 1..Len(item.block) :
        /\ item.block[k].node = "Local"
        /\ item.block[k].children # <<>>
        /\ item.block[k].children[1].node = "ExprCall"
        /\ item.block[k].children[1].children[1].node = "ExprPath"
        /\ \E i \in 1..Len(item.block[k].children[1].children[1].segments) :
              item.block[k].children[1].children[1].segments[i] = ClientIdent}

HasPrefix(segment) == Len(segment) >= 8 /\ SubSeq(segment, 1, 8) = AWS_SDK_PREFIX

\* the SDK of a path: its first segment with the prefix aws_sdk_, without it
PrefixedService(segments) ==
    IF \E i \in 1..Len(segments) : HasPrefix(segments[i])
    THEN LET i == CHOOSE i \in 1..Len(segments) :
                     HasPrefix(segments[i]) /\ \A j \in 1..(i - 1) : ~HasPrefix(segments[j])
         IN  Some(SubSeq(segments[i], 9, Len(segments[i])))
    ELSE None

\* C22: the clients of a function without parameters whose body is local
\* declarations are those of the declarations that call a path with a
\* segment Client, each with the declared identifier and with the SDK of
\* the segment of that path that has the prefix aws_sdk_, if there is one.
C22_LocalDeclarationRule ==
    (/\ pc = "visited"
     /\ item.sig = <<>>
     /\ \A k \in 1..Len(item.block) : item.block[k].node = "Local") =>
        Range(clients)
           = {Client(item.block[k].ident,
                     PrefixedService(item.block[k].children[1].children[1].segments)) :
                 k \in ClientDeclarations}

\* the text of record m between its commas number n - 1 and n
FieldOf(m, n) ==
    LET commas == {i \in 1..Len(m) : m[i] = ","}
        from == IF n = 1 THEN 0
                ELSE CHOOSE i \in commas : Cardinality({j \in commas : j < i}) = n - 2
        to == IF n = Cardinality(commas) + 1 THEN Len(m) + 1
              ELSE CHOOSE i \in commas : Cardinality({j \in commas : j < i}) = n - 1
    IN  SubSeq(m, from + 1, to - 1)

\* the words of a text: its longest runs without a space, from left to right
RECURSIVE WordsFrom(_, _)
WordsFrom(str, i) ==
    IF i > Len(str) THEN <<>>
    ELSE IF str[i] = " " THEN WordsFrom(str, i + 1)
    ELSE LET end == CHOOSE j \in i..Len(str) :
                       /\ \A l \in i..j : str[l] # " "
                       /\ j = Len(str) \/ str[j + 1] = " "
         IN  <<SubSeq(str, i, end)>> \o WordsFrom(str, end + 1)

\* the arguments of the records from number k on that are of a service and
\* a method, one record after the other
RECURSIVE ArgumentsOf(_, _, _)
ArgumentsOf(service, method, k) ==
    IF k > Len(Records) THEN <<>>
    ELSE (IF FieldOf(Records[k], 1) = service /\ FieldOf(Records[k], 2) = method
          THEN WordsFrom(FieldOf(Records[k], 3), 1) ELSE <<>>)
         \o ArgumentsOf(service, method, k + 1)

\* C23: a table whose records all have three fields is loaded into a map
\* that has the methods of the records as keys, under a method one entry
\* for every service with a record of that method, and as its value the
\* arguments of that record, or of these records, in their order.
C23_MapOfTheRecords ==
    (pc = "loaded" /\ \A k \in 1..Len(Records) : FieldCount(Records[k]) = 3) =>
        /\ DOMAIN required_props_map = {FieldOf(Records[k], 2) : k \in 1..Len(Records)}
        /\ \A method \in DOMAIN required_props_map :
              /\ {e.key : e \in required_props_map[method]}
                    = {FieldOf(Records[k], 1) :
                          k \in {j \in 1..Len(Records) : FieldOf(Records[j], 2) = method}}
              /\ \A e, f \in required_props_map[method] : e.key = f.key => e = f
              /\ \A e \in required_props_map[method] :
                    e.value = ArgumentsOf(e.key, method, 1)
        /\ required_props \in RequiredPropertiesMaps(required_props_map)

C23_Witness ==
    /\ pc = "loaded"
    /\ methods_with_required_props
          = <<"a", ",", "a", ",", " ", "b", " ", " ", "a", "\n", "b", ",", "a", ",", "a">>
    /\ required_props_map
          = (<<"a">> :> {Entry(<<"a">>, <<<<"b">>, <<"a">>>>), Entry(<<"b">>, <<<<"a">>>>)})

\* the names of S from the least to the greatest
Ascending(S) ==
    [i \in 1..Cardinality(S) |->
        CHOOSE x \in S : Cardinality({y \in S : StrLess(y, x)}) = i - 1]

\* C24: the message of an unknown usage lists the SDKs of the finding in
\* ascending order joined by ", ": all of them when there are at most five,
\* and the five least followed by "... (abbreviated list)" when there are
\* more; it is the same for every order of the SDKs in the finding.
C24_SortedAndAbbreviated ==
    \A k \in 1..Len(errors) :
        results[k].kind = "Unknown" =>
            LET sdks == Ascending(Range(results[k].sdks))
            IN  errors[k].arguments[2]
                   = IF Len(sdks) <= 5 THEN Join(sdks, <<",", " ">>)
                     ELSE Join(SubSeq(sdks, 1, 5), <<",", " ">>) \o ABBREVIATED_LIST

C24_Witness ==
    /\ pc = "reported"
    /\ Len(results) = 2
    /\ results[2].sdks = <<sqs, s3control, <<"s">>, sns, s3, dynamodb>>
    /\ errors[2].arguments[2]
          = Join(<<dynamodb, <<"s">>, s3, s3control, sns>>, <<",", " ">>) \o ABBREVIATED_LIST

PairwiseIdentical ==
    \A i, j \in 1..Len(Candidates) : Candidates[i].value = Candidates[j].value

\* the result of rule 5b: the SDKs of the method, sorted and joined
JointResult ==
    /\ resolved[1].ok
    /\ resolved[1].sdk = Join(Sort(keys(Candidates)), <<",">>)

\* C26: for a method of two SDKs or more, in every iteration order, the
\* joint result of rule 5b is returned exactly when the lists of all the
\* SDKs are identical, an empty list and a reordered list included.
C26_SameExactlyWhenIdentical ==
    pc = "returned" /\ Len(Candidates) >= 2 =>
        /\ results_that_are_all_the_same(Candidates)[1] <=> PairwiseIdentical
        /\ JointResult <=> PairwiseIdentical

\* the call at position k of the calls from the anchor on may stand in the
\* window of that anchor
InWindow(skip, k) ==
    /\ method_of(Self, skip[k]) # AWS_SDK_SEND
    /\ \/ method_of(Self, skip[k]) = method_of(Self, skip[1])
       \/ method_of(Self, skip[k]) \notin DOMAIN required_props

\* the length of the longest prefix of calls that may stand in the window
LongestPrefix(skip) ==
    CHOOSE n \in 0..Len(skip) :
        /\ \A k \in 1..n : InWindow(skip, k)
        /\ n < Len(skip) => ~InWindow(skip, n + 1)

\* a send ends the window of the anchor
EndsAtSend(skip) ==
    /\ LongestPrefix(skip) < Len(skip)
    /\ method_of(Self, skip[LongestPrefix(skip) + 1]) = AWS_SDK_SEND

NamesOf(skip, n) == [k \in 1..n |-> method_of(Self, skip[k])]

\* C27: after an iteration that found an anchor and went on, the window is
\* the longest prefix of the calls from the anchor on that have the name of
\* the anchor or no name of the knowledge base and are no send, and what
\* remains are the calls after it; when a send ends the window, the send
\* is part of the window and what remains starts after the send.
C27_WindowBound ==
    last.branch \in {"improper", "complete", "skipped"} =>
        IF EndsAtSend(last.skip)
        THEN /\ last.arguments = NamesOf(last.skip, LongestPrefix(last.skip) + 1)
             /\ initial = drain(last.skip, LongestPrefix(last.skip) + 1)
        ELSE /\ last.arguments = NamesOf(last.skip, LongestPrefix(last.skip))
             /\ initial = drain(last.skip, LongestPrefix(last.skip))

\* the label of a finding is one SDK of the method, and what is missing is
\* required of that SDK
OfOneCandidate(f, candidates) ==
    /\ contains_key(candidates, f.sdk)
    /\ Range(f.missing) \subseteq Range(get(candidates, f.sdk))

\* the label of a finding is all SDKs of the method, joined, and what is
\* missing is required of them all
OfAllCandidates(f, candidates) ==
    /\ Len(candidates) >= 2
    /\ f.sdk = Join(Sort(keys(candidates)), <<",">>)
    /\ \A i \in 1..Len(candidates) : Range(f.missing) \subseteq Range(candidates[i].value)

\* C28: in every finding of missing arguments the label is an SDK of the
\* method of the finding, or all its SDKs joined, and every missing
\* argument is one the knowledge base requires of the method for that
\* label.
C28_LabelAndListBelongTogether ==
    \A k \in 1..Len(results) :
        results[k].kind = "Improper" =>
            \/ OfOneCandidate(results[k], required_props[results[k].method])
            \/ OfAllCandidates(results[k], required_props[results[k].method])

\* the chain of the SDK call recorded at index a: the call and the calls
\* analysed after it up to a send or the next SDK call
OwnChain(a) ==
    {a} \cup {k \in 1..(a - 1) : \A l \in k..(a - 1) :
                /\ method_of(Self, l) # AWS_SDK_SEND
                /\ method_of(Self, l) \notin DOMAIN required_props}

\* what the chain of the call at index a does not set
OwnMissing(a) ==
    SelectSeq(Required(a), LAMBDA c : c \notin {method_of(Self, k) : k \in OwnChain(a)})

C30_OneUnknownAndLast ==
    /\ Cardinality(Unknowns) <= 1
    /\ \A u \in Unknowns : u = Len(results)
    /\ \A k \in 1..Len(results) : results[k].kind \in {"Improper", "Unknown"}
    /\ pc = "done" =>
          \A k, l \in 1..Len(results) : k < l => results[k].span > results[l].span

\* find_improper_usages has returned a finding of missing arguments and,
\* after it, an unknown usage of a call recorded earlier
C30_Witness ==
    /\ pc = "done"
    /\ Len(results) = 2
    /\ results[1].kind = "Improper"
    /\ results[2].kind = "Unknown"
    /\ results[1].span > results[2].span

=============================================================================
